---- MODULE Spec2Model ----
(***************************************************************************)
(* A model of lib/telegraf.js: the middleware composer, the dispatcher     *)
(* (handleUpdate), the event normalizer, the polling loop and the webhook  *)
(* endpoint with its response sink.                                        *)
(*                                                                         *)
(* The specifications share the variables:                                 *)
(*   SpecCompose  handleUpdate called directly; the composed middleware    *)
(*                chain is executed one generator step at a time, so that  *)
(*                the steps of concurrent dispatches interleave;           *)
(*   SpecState    SpecCompose with handlers that write to this.state, and   *)
(*                a telegraf.context the application may have written to;  *)
(*   SpecEvents   one raw event of any shape is normalized and dispatched  *)
(*                through stages registered by use() and on();             *)
(*   Spec         the polling loop; a dispatch is in flight until its      *)
(*                promise settles, and its outcome is the outcome of the   *)
(*                same chain execution run to its end (Finish);            *)
(*   FairSpec     Spec with the fairness of the network, the timer and     *)
(*                the promise callbacks;                                   *)
(*   SpecLoops    Spec with room for more than one promise chain of the    *)
(*                polling loop;                                            *)
(*   SpecWebhook  webhook deliveries and the outbound calls made while     *)
(*                (and after) they are dispatched.                         *)
(* The bot token is taken to be configured (sendRequest, line 710).        *)
(***************************************************************************)
EXTENDS Integers, Sequences, FiniteSets, TLC

VARIABLES
    middleware,   \* this.middleware: the registered handlers, in order
    polling,      \* this.polling: [offset, started]
    runs,         \* SpecCompose: the dispatches begun by direct handleUpdate calls
    loops,        \* Spec: one record per pollingLoop promise chain
    hooks,        \* SpecWebhook: the webhook deliveries, their responses and calls
    options,      \* this.options: [webHookAnswer]
    errorHandler, \* this.onError: the default handler, or one the application set
    thisContext   \* this.context: the properties the application put on it

vars == <<middleware, polling, runs, loops, hooks, options, errorHandler, thisContext>>

\* ---------------------------------------------------------------- bounds

MaxHandlers == 3     \* handlers registered in SpecCompose
MaxRuns == 2         \* direct handleUpdate calls in SpecCompose
MaxMiddleware == 1   \* handlers registered in Spec
MaxUpdateId == 2     \* Spec: update_id ranges over 1..MaxUpdateId
MaxDeliveries == 1   \* SpecWebhook: webhook requests received
MaxCalls == 3        \* SpecWebhook: outbound calls made by the handlers
MaxLoops == 1        \* Spec: promise chains of pollingLoop followed at a time
MaxKeys == 3         \* SpecEvents: keys with a value in a raw event
MaxStages == 2       \* SpecEvents: stages registered by use and on
MaxChains == 2       \* SpecLoops: promise chains of pollingLoop followed at a time

\* ------------------------------------------------------ handlers, updates

(* What a registered generator function does with its continuation:        *)
(*   next           enter; yield next; exit                                *)
(*   stop           enter; exit (the continuation is never invoked)        *)
(*   throw          enter; throw                                           *)
(*   nextThrow      enter; yield next; throw                               *)
(* A throwing handler throws on the updates it chokes on (marked poison)   *)
(* and behaves as next on every other update.                              *)
HandlerKinds == {"next", "stop", "throw", "nextThrow"}

Behaviour(kind, u) ==
    IF kind \in {"throw", "nextThrow"} /\ ~u.poison THEN "next" ELSE kind

\* The recognized top-level event kinds, in catalog order.
updateTypes ==
    <<"message", "edited_message", "channel_post", "callback_query",
      "inline_query", "chosen_inline_result", "shipping_query",
      "pre_checkout_query">>

\* The message subtypes, in catalog order.
messageSubTypes == <<"photo", "location", "sticker">>

\* The value of a property that was never assigned.
NoType == "undefined"

\* A raw update u is [update_id, keys, subs, poison]: keys are the top-level
\* keys with a value, subs the keys of u.message with a value.
\* update[key]: the value the raw update holds under a top-level key.
Field(u, key) == [of |-> key, subs |-> IF key = "message" THEN u.subs ELSE {}]

NoPayload == [of |-> NoType, subs |-> {}]

\* A scan that keeps the first key it finds.
RECURSIVE ScanTypesFirst(_, _, _)
ScanTypesFirst(u, i, result) ==
    IF i > Len(updateTypes) THEN result
    ELSE ScanTypesFirst(u, i + 1,
            IF updateTypes[i] \in u.keys /\ result.type = NoType
            THEN [result EXCEPT !.payload = Field(u, updateTypes[i]),
                                !.type = updateTypes[i]]
            ELSE result)

\* The catalog scan of extractUpdate: a later key overwrites an earlier one.
RECURSIVE ScanTypes(_, _, _)
ScanTypes(u, i, result) ==
    IF i > Len(updateTypes) THEN result
    ELSE ScanTypes(u, i + 1,
            IF updateTypes[i] \in u.keys
            THEN [result EXCEPT !.payload = Field(u, updateTypes[i]),
                                !.type = updateTypes[i]]
            ELSE result)

\* The scan of the message subtypes, run whenever the update has a message.
RECURSIVE ScanSubTypes(_, _, _)
ScanSubTypes(u, i, result) ==
    IF i > Len(messageSubTypes) THEN result
    ELSE ScanSubTypes(u, i + 1,
            IF messageSubTypes[i] \in u.subs
            THEN [result EXCEPT !.subType = messageSubTypes[i]]
            ELSE result)

extractUpdate(u) ==
    LET result == ScanTypes(u, 1, [type |-> NoType, payload |-> NoPayload,
                                   subType |-> NoType])
    IN IF "message" \in u.keys THEN ScanSubTypes(u, 1, result) ELSE result

\* The context handleUpdate builds: eventType and eventSubType.
NoContext == [eventType |-> NoType, eventSubType |-> NoType]

Context(update) == [eventType |-> update.type, eventSubType |-> update.subType]

\* The object context.state is after Object.assign({..., state: state},
\* this.context): the properties of this.context are copied over the ones
\* handleUpdate has just set, so a state property of this.context replaces
\* the object made for this call ("own") by the one every call gets
\* ("shared").
ContextState(tc) == IF tc.hasState THEN "shared" ELSE "own"

\* The raw updates the specifications draw from: a message, or an event of
\* no recognized kind; a handler may choke on a poison update.
UpdateShapes ==
    { [keys |-> {"message"}, poison |-> FALSE],
      [keys |-> {"message"}, poison |-> TRUE],
      [keys |-> {}, poison |-> FALSE] }

RawUpdate(n, shape) ==
    [update_id |-> n, keys |-> shape.keys, subs |-> {}, poison |-> shape.poison]

\* ------------------------------------------------------------- compose

\* function * noop () {}: a generator with an empty body.
noop == <<>>

\* The loop of Telegraf.compose: next = middleware[i].call(this, next), from
\* the last handler to the first. A generator object is <<handler, next>>.
RECURSIVE ComposeFrom(_, _, _)
ComposeFrom(mw, i, next) ==
    IF i = 0 THEN next ELSE ComposeFrom(mw, i - 1, <<mw[i], next>>)

RECURSIVE ComposeForward(_, _, _)
ComposeForward(mw, i, next) ==
    IF i > Len(mw) THEN next ELSE ComposeForward(mw, i + 1, <<mw[i], next>>)

\* A composer that wraps from the first handler to the last.
ComposeReversed(mw) == ComposeForward(mw, 1, noop)

\* A composer whose loop stops one handler short of the end of the list.
ComposeSkipLast(mw) == IF Len(mw) = 0 THEN noop ELSE ComposeFrom(mw, Len(mw) - 1, noop)

compose(mw) == ComposeFrom(mw, Len(mw), noop)

\* ------------------------------------------------ running a composed chain

NoErr == [kind |-> "none", by |-> 0]
HandlerErr(id) == [kind |-> "handler", by |-> id]
UndefinedTypeErr == [kind |-> "Undefined update type", by |-> 0]

Enter(id) == <<"enter", id>>
Exit(id) == <<"exit", id>>

Frame(gen) == [gen |-> gen, pc |-> "start"]

\* ctx.run() on the composed generator: nothing has run yet.
NewRun(gen) ==
    [stack |-> <<Frame(gen)>>, trace |-> <<>>, status |-> "running", err |-> NoErr]

Top(r) == r.stack[Len(r.stack)]
Pop(s) == SubSeq(s, 1, Len(s) - 1)
SetTopPc(s, pc) == [s EXCEPT ![Len(s)].pc = pc]

\* A thrown error is dropped where it is raised and the handler just returns.
ThrowSwallowed(r, id) == [r EXCEPT !.stack = Pop(r.stack)]

\* A thrown error unwinds every generator of the run: no frame is resumed.
Throw(r, id) == [r EXCEPT !.status = "rejected", !.err = HandlerErr(id), !.stack = <<>>]

\* Telegraf.compose(fns) used as a handler: a generator function that wraps
\* fns around the continuation it is called with.
composed(id, fns) == [id |-> id, kind |-> "composed", fns |-> fns]

\* Telegraf.handler(eventTypes, fns...): the stage that runs compose(fns) for
\* the events of the given types and subtypes, and then continues.
handler(id, eventTypes, fns) ==
    [id |-> id, kind |-> "gated", types |-> eventTypes, fns |-> fns]

\* A test that looks at the event type only.
GateOpenTypeOnly(h, ctx) == ctx.eventType \in h.types

\* eventTypes.indexOf(this.eventType) !== -1 ||
\* eventTypes.indexOf(this.eventSubType) !== -1
GateOpen(h, ctx) == ctx.eventType \in h.types \/ ctx.eventSubType \in h.types

\* The body of a gated stage is entered; it yields its continuation.
Gate(id) == <<"gate", id>>
Continue(id) == <<"next", id>>

\* One resumption of the generator of a gated stage h with continuation nxt.
StepGate(r, u, h, nxt, pc) ==
    LET continued ==
            [r EXCEPT !.trace = Append(@, Continue(h.id)),
                      !.stack = Append(SetTopPc(r.stack, "after"), Frame(nxt))]
    IN CASE pc = "start" ->
              LET entered == [r EXCEPT !.trace = Append(@, Gate(h.id))] IN
              IF GateOpen(h, Context(extractUpdate(u)))
              THEN [entered EXCEPT
                      !.stack = Append(SetTopPc(r.stack, "inner"), Frame(compose(h.fns)))]
              ELSE [continued EXCEPT !.trace = entered.trace \o <<Continue(h.id)>>]
         [] pc = "inner" -> continued
         [] OTHER -> [r EXCEPT !.stack = Pop(r.stack)]

\* One resumption of the innermost generator of run r, dispatching update u.
StepRun(r, u) ==
    LET f == Top(r) IN
    IF f.gen = noop
    THEN [r EXCEPT !.stack = Pop(r.stack)]
    ELSE IF f.gen[1].kind = "gated"
    THEN StepGate(r, u, f.gen[1], f.gen[2], f.pc)
    ELSE IF f.gen[1].kind = "composed"
    THEN \* return yield * next, next being fns wrapped around the continuation
         IF f.pc = "start"
         THEN [r EXCEPT !.stack = Append(SetTopPc(r.stack, "after"),
                   Frame(ComposeFrom(f.gen[1].fns, Len(f.gen[1].fns), f.gen[2])))]
         ELSE [r EXCEPT !.stack = Pop(r.stack)]
    ELSE
      LET h == f.gen[1]
          nxt == f.gen[2]
          b == Behaviour(h.kind, u)
      IN
      IF f.pc = "start"
      THEN
        LET entered == [r EXCEPT !.trace = Append(r.trace, Enter(h.id))] IN
        CASE b = "throw" -> Throw(entered, h.id)
          [] b = "stop" -> [entered EXCEPT !.stack = SetTopPc(r.stack, "after")]
          [] OTHER ->
               [entered EXCEPT
                   !.stack = Append(SetTopPc(r.stack, "after"), Frame(nxt))]
      ELSE
        IF b = "nextThrow"
        THEN Throw(r, h.id)
        ELSE [r EXCEPT !.trace = Append(r.trace, Exit(h.id)),
                       !.stack = Pop(r.stack)]

\* The run once the outermost generator has returned.
Settle(r) ==
    IF r.status = "running" /\ r.stack = <<>> THEN [r EXCEPT !.status = "resolved"] ELSE r

Stepped(r, u) == Settle(StepRun(r, u))

\* The run carried to its end (each step is evaluated once, then passed on).
RECURSIVE Finish(_, _)
Finish(r, u) ==
    IF r.status # "running" THEN r
    ELSE CHOOSE end \in { Finish(next, u) : next \in {Stepped(r, u)} } : TRUE

\* The default error handler prints the error and throws it again.
onError(err) == [thrown |-> TRUE, err |-> err]

\* A handler the application assigned to onError: it reports the error and
\* returns.
customOnError(err) == [thrown |-> FALSE, err |-> err]

\* this.onError(err): the handler installed on the instance.
thisOnError(err) == IF errorHandler = "default" THEN onError(err) ELSE customOnError(err)

\* The promise handleUpdate returns, once the run r has ended: co-ware hands
\* a failure to the 'error' listener, and the promise rejects when the
\* listener throws.
Outcome(r) ==
    IF r.status = "rejected" /\ thisOnError(r.err).thrown
    THEN [status |-> "rejected", err |-> thisOnError(r.err).err]
    ELSE [status |-> "resolved", err |-> NoErr]

\* The continuation of ctx.run(): this.polling.offset = rawUpdate.update_id + 1
Advance(p, u) == [p EXCEPT !.offset = u.update_id + 1]

\* A continuation that runs whether the run failed or not.
AdvanceAlways(p, u, o) == Advance(p, u)

\* polling after the promise of a dispatch of u settled with outcome o.
Settled(p, u, o) == IF o.status = "resolved" THEN Advance(p, u) ELSE p

\* ------------------------------------------------------------------ Init

\* this.context = {}: no property. (hasState: the application has assigned
\* an object to telegraf.context.state; state: the keys written into that
\* object.)
EmptyContext == [hasState |-> FALSE, state |-> {}]

\* A promise chain of pollingLoop that is over, or not begun.
Ended == [pc |-> "ended", reqOffset |-> 0, batch |-> <<>>, st |-> <<>>]

InFlight(lp) == \E i \in DOMAIN lp.st : lp.st[i] = "running"
Free(lp) == lp.pc = "ended" /\ ~InFlight(lp)

Init ==
    /\ middleware = <<>>
    /\ polling = [offset |-> 0, started |-> FALSE]
    /\ runs = <<>>
    /\ loops = [l \in 1..MaxLoops |-> Ended]
    /\ hooks = <<>>
    /\ options = [webHookAnswer |-> TRUE]
    /\ errorHandler = "default"
    /\ thisContext = EmptyContext

\* ----------------------------------------------- SpecCompose: direct calls

\* telegraf.use(fn), while nothing has been dispatched yet.
use(kind, max) ==
    /\ Len(middleware) < max
    /\ runs = <<>>
    /\ \A l \in DOMAIN loops : loops[l] = Ended
    /\ ~polling.started
    /\ middleware' = Append(middleware, [id |-> Len(middleware) + 1, kind |-> kind])
    /\ UNCHANGED <<polling, runs, loops, hooks, options, errorHandler, thisContext>>

\* A handleUpdate that does not look at update.type.
handleUpdateUnchecked(u) ==
    /\ Len(runs) < MaxRuns
    /\ runs' = Append(runs,
         [update |-> u, event |-> extractUpdate(u), context |-> Context(extractUpdate(u)),
          state |-> {}, stateRef |-> ContextState(thisContext),
          phase |-> "running", out |-> [status |-> "pending", err |-> NoErr],
          run |-> NewRun(compose(middleware))])
    /\ UNCHANGED <<middleware, polling, loops, hooks, options, errorHandler, thisContext>>

\* handleUpdate(u) up to the return of the promise: throws when the update
\* has no recognized kind, else builds the context and starts the composed
\* chain. (event is the local variable update, the normalized event; state
\* is the object var state = {}, as the set of the keys written into it, and
\* stateRef the object context.state is.)
handleUpdate(u) ==
    /\ Len(runs) < MaxRuns
    /\ runs' = Append(runs,
         IF extractUpdate(u).type = NoType
         THEN [update |-> u, event |-> extractUpdate(u), context |-> NoContext,
               state |-> {}, stateRef |-> "none",
               phase |-> "threw", out |-> [status |-> "rejected", err |-> UndefinedTypeErr],
               run |-> [stack |-> <<>>, trace |-> <<>>, status |-> "rejected", err |-> UndefinedTypeErr]]
         ELSE [update |-> u, event |-> extractUpdate(u), context |-> Context(extractUpdate(u)),
               state |-> {}, stateRef |-> ContextState(thisContext),
               phase |-> "running", out |-> [status |-> "pending", err |-> NoErr],
               run |-> NewRun(compose(middleware))])
    /\ UNCHANGED <<middleware, polling, loops, hooks, options, errorHandler, thisContext>>

\* One generator of dispatch d is resumed.
RunStep(d) ==
    /\ runs[d].phase = "running"
    /\ runs[d].run.status = "running"
    /\ runs' = [runs EXCEPT ![d].run = Stepped(runs[d].run, runs[d].update)]
    /\ UNCHANGED <<middleware, polling, loops, hooks, options, errorHandler, thisContext>>

\* The promise of dispatch d settles: the cursor advances on success.
RunSettled(d) ==
    /\ runs[d].phase = "running"
    /\ runs[d].run.status # "running"
    /\ LET o == Outcome(runs[d].run) IN
       /\ runs' = [runs EXCEPT ![d].phase = "settled", ![d].out = o]
       /\ polling' = Settled(polling, runs[d].update, o)
    /\ UNCHANGED <<middleware, loops, hooks, options, errorHandler, thisContext>>

NextCompose ==
    \/ \E k \in HandlerKinds : use(k, MaxHandlers)
    \/ \E sh \in UpdateShapes : handleUpdate(RawUpdate(Len(runs) + 1, sh))
    \/ \E d \in DOMAIN runs : RunStep(d)
    \/ \E d \in DOMAIN runs : RunSettled(d)

SpecCompose == Init /\ [][NextCompose]_vars

\* ------------------------------------------ SpecState: the state of an event

\* new Telegraf(...), and then the application leaves telegraf.context as it
\* is or assigns an object to telegraf.context.state.
InitState ==
    /\ middleware = <<>>
    /\ polling = [offset |-> 0, started |-> FALSE]
    /\ runs = <<>>
    /\ loops = [l \in 1..MaxLoops |-> Ended]
    /\ hooks = <<>>
    /\ options = [webHookAnswer |-> TRUE]
    /\ errorHandler = "default"
    /\ thisContext \in { [hasState |-> b, state |-> {}] : b \in BOOLEAN }

\* The keys of the object this.state of dispatch d denotes.
StateOf(d) ==
    IF runs[d].stateRef = "shared" THEN thisContext.state ELSE runs[d].state

\* A handler of dispatch d that has been entered, and whose chain is not over,
\* does this.state[d] = ...: the key goes into the object context.state is.
HandlerWrites(d) ==
    /\ runs[d].phase = "running"
    /\ runs[d].run.status = "running"
    /\ runs[d].run.trace # <<>>
    /\ d \notin StateOf(d)
    /\ IF runs[d].stateRef = "shared"
       THEN /\ thisContext' = [thisContext EXCEPT !.state = @ \cup {d}]
            /\ UNCHANGED runs
       ELSE /\ runs' = [runs EXCEPT ![d].state = @ \cup {d}]
            /\ UNCHANGED thisContext
    /\ UNCHANGED <<middleware, polling, loops, hooks, options, errorHandler>>

NextState ==
    \/ use("next", MaxMiddleware)
    \/ \E sh \in UpdateShapes : handleUpdate(RawUpdate(Len(runs) + 1, sh))
    \/ \E d \in DOMAIN runs : RunStep(d)
    \/ \E d \in DOMAIN runs : RunSettled(d)
    \/ \E d \in DOMAIN runs : HandlerWrites(d)

SpecState == InitState /\ [][NextState]_vars

\* The dispatches whose context was built.
Built == { d \in DOMAIN runs : runs[d].stateRef # "none" }

\* A dispatch sees in this.state no key but its own.
OwnKeysOnly == \A d \in Built : StateOf(d) \subseteq {d}

\* The state of a dispatch that has just begun is empty.
BeginsEmpty ==
    LET d == Len(runs) + 1 IN
    Len(runs') = d /\ runs'[d].stateRef # "none" =>
        (IF runs'[d].stateRef = "shared" THEN thisContext'.state ELSE runs'[d].state) = {}

\* C22: every dispatch starts with a fresh empty context.state, and a write to
\* context.state made by a handler in one dispatch is never observable in
\* another dispatch, sequential or concurrent.
C22_StateExclusive == []OwnKeysOnly /\ [][BeginsEmpty]_vars

\* With telegraf.context left as the constructor made it, the state of every
\* dispatch is its own.
OwnStateByDefault == ~thisContext.hasState => OwnKeysOnly

\* ------------------------------------- SpecEvents: normalization and on()

\* The raw events handleUpdate is called with: at most MaxKeys keys with a
\* value, at the top level and in the message together; a key is one of a
\* catalog or another one.
OtherKey == "other"
TopKeys == {updateTypes[i] : i \in DOMAIN updateTypes} \cup {OtherKey}
SubKeys == {messageSubTypes[i] : i \in DOMAIN messageSubTypes} \cup {OtherKey}

RawEvents ==
    { [update_id |-> 1, keys |-> K, subs |-> S, poison |-> p] :
        K \in SUBSET TopKeys, S \in SUBSET SubKeys, p \in BOOLEAN }

BoundedEvents ==
    { u \in RawEvents :
        /\ Cardinality(u.keys) + Cardinality(u.subs) <= MaxKeys
        /\ u.subs # {} => "message" \in u.keys }

\* The event types on() is called with.
GateTypes == { {"message"}, {"photo"} }

\* telegraf.on(eventTypes, fn): use(Telegraf.handler(eventTypes,
\* Telegraf.compose(fns))); the handlers of stage g have the ids 10 g + j.
on(eventTypes, kind) ==
    /\ Len(middleware) < MaxStages
    /\ runs = <<>>
    /\ LET g == Len(middleware) + 1 IN
       middleware' = Append(middleware,
           handler(g, eventTypes, << composed(g, << [id |-> 10 * g + 1, kind |-> kind] >>) >>))
    /\ UNCHANGED <<polling, runs, loops, hooks, options, errorHandler, thisContext>>

NextEvents ==
    \/ use("next", MaxStages)
    \/ \E t \in GateTypes : \E k \in {"next", "throw"} : on(t, k)
    \/ \E u \in BoundedEvents : runs = <<>> /\ handleUpdate(u)
    \/ \E d \in DOMAIN runs : RunStep(d)
    \/ \E d \in DOMAIN runs : RunSettled(d)

SpecEvents == Init /\ [][NextEvents]_vars

\* ---------------------------------- properties of normalization and on()

\* The recognized keys a raw update has at the top level, and in its message.
Recognized(u) == u.keys \cap {updateTypes[i] : i \in DOMAIN updateTypes}
RecognizedSubs(u) == u.subs \cap {messageSubTypes[i] : i \in DOMAIN messageSubTypes}

\* The member of S that comes last in the catalog.
LastOf(catalog, S) ==
    catalog[CHOOSE i \in DOMAIN catalog :
                catalog[i] \in S /\ \A j \in DOMAIN catalog : j > i => catalog[j] \notin S]

\* Dispatch d begins, or changes, in this step.
Touched(d) == d \notin DOMAIN runs \/ runs'[d] # runs[d]

\* C15: a raw event with none of the recognized keys makes handleUpdate fail
\* with the undefined-type error before a context is built: no handler is
\* entered and the cursor stays where it is.
C15_UndefinedType ==
    /\ [](\A d \in DOMAIN runs :
            Recognized(runs[d].update) = {} =>
                /\ runs[d].phase = "threw"
                /\ runs[d].out = [status |-> "rejected", err |-> UndefinedTypeErr]
                /\ runs[d].context = NoContext
                /\ runs[d].run.trace = <<>>)
    /\ [][ \A d \in DOMAIN runs' :
             (Touched(d) /\ Recognized(runs'[d].update) = {}) => polling' = polling ]_vars

\* With a handler registered, an event whose only key is not in the catalog
\* has been refused.
C15_Witness ==
    /\ middleware # <<>>
    /\ \E d \in DOMAIN runs :
          /\ runs[d].update.keys = {OtherKey}
          /\ runs[d].phase = "threw"
          /\ polling.offset = 0

\* C16: last match wins. For a raw event with a recognized key, type is the
\* key present that comes last in the catalog (the key itself when it is the
\* only one) and payload is what the event holds under it; the subtype
\* recorded for a message is the subtype present that comes last in the
\* catalog of subtypes.
C16_LastMatchWins ==
    \A d \in DOMAIN runs :
        LET u == runs[d].update
            e == runs[d].event
        IN Recognized(u) # {} =>
            /\ e.type = LastOf(updateTypes, Recognized(u))
            /\ e.payload = Field(u, e.type)
            /\ Cardinality(Recognized(u)) = 1 => e.type \in Recognized(u)
            /\ ("message" \in u.keys /\ RecognizedSubs(u) # {}) =>
                   e.subType = LastOf(messageSubTypes, RecognizedSubs(u))

\* An event with three recognized keys is a callback query, the last of the
\* three in the catalog.
C16_Witness ==
    \E d \in DOMAIN runs :
        /\ runs[d].update.keys = {"message", "edited_message", "callback_query"}
        /\ runs[d].event.type = "callback_query"
        /\ runs[d].event.payload.of = "callback_query"

\* C17: an event whose type is not message has no subtype, and the context
\* built for it has no eventSubType.
C17_SubTypeOnlyForMessage ==
    \A d \in DOMAIN runs :
        (Recognized(runs[d].update) # {} /\ runs[d].event.type # "message") =>
            /\ runs[d].event.subType = NoType
            /\ runs[d].context.eventSubType = NoType

\* The stages registered by on(), and the handlers on() was given for stage g.
Gates == {g \in DOMAIN middleware : middleware[g].kind = "gated"}
InnerIds(g) == {middleware[g].fns[1].fns[j].id : j \in DOMAIN middleware[g].fns[1].fns}

Occurrences(tr, e) == {i \in DOMAIN tr : tr[i] = e}
InnerEvents(tr, g) ==
    {i \in DOMAIN tr : tr[i][1] \in {"enter", "exit"} /\ tr[i][2] \in InnerIds(g)}

\* C18: a stage made by Telegraf.handler runs its handlers if and only if
\* the eventType or the eventSubType of the context is one of its event
\* types; it invokes its continuation exactly once, after its handlers have
\* settled when they ran, and not at all when they throw.
C18_GatedStage ==
    \A d \in DOMAIN runs : \A g \in Gates :
        LET tr == runs[d].run.trace
            ctx == runs[d].context
            member == ctx.eventType \in middleware[g].types
                        \/ ctx.eventSubType \in middleware[g].types
            entered == Occurrences(tr, Gate(g)) # {}
            ended == runs[d].run.status # "running"
            continued == Occurrences(tr, Continue(g))
            inner == InnerEvents(tr, g)
            innerThrew == runs[d].run.err.kind = "handler" /\ runs[d].run.err.by \in InnerIds(g)
        IN /\ inner # {} => member
           /\ (entered /\ member /\ (ended \/ continued # {})) => inner # {}
           /\ Cardinality(continued) <= 1
           /\ \A c \in continued :
                 /\ \A i \in inner : i < c
                 /\ member => \A id \in InnerIds(g) :
                        Occurrences(tr, Enter(id)) # {} => Occurrences(tr, Exit(id)) # {}
           /\ innerThrew => continued = {}
           /\ (entered /\ ended /\ ~innerThrew) => Cardinality(continued) = 1

\* on('photo', fn) followed by a plain handler, dispatching a message with a
\* photo: fn has run, then the stage has continued into the next handler.
C18_Witness ==
    \E d \in DOMAIN runs :
        /\ Len(middleware) = 2
        /\ middleware[1].kind = "gated" /\ middleware[1].types = {"photo"}
        /\ runs[d].context = [eventType |-> "message", eventSubType |-> "photo"]
        /\ runs[d].run.status = "resolved"
        /\ runs[d].run.trace = << Gate(1), Enter(11), Exit(11), Continue(1),
                                  Enter(2), Exit(2) >>

\* ------------------------------------------------- properties of the composer

\* What handler i does with update u.
B(i, u) == Behaviour(middleware[i].kind, u)
N == Len(middleware)

IsPrefix(s, t) == Len(s) <= Len(t) /\ SubSeq(t, 1, Len(s)) = s
Enters(k) == [i \in 1..k |-> Enter(i)]
ExitsDown(hi, lo) == [j \in 1..(hi - lo + 1) |-> Exit(hi + 1 - j)]

Started(d) == runs[d].phase # "threw"

\* Every handler invokes its continuation once and returns.
AllContinue(u) == \A i \in 1..N : B(i, u) = "next"
OnionTrace == Enters(N) \o ExitsDown(N, 1)

\* C7: onion ordering. While and after a chain whose handlers all invoke
\* their continuation once is run, the handlers have been entered in
\* registration order and left in reverse order, a handler being left only
\* after everything inside its continuation has returned: the trace is at
\* every moment a prefix of enter 1..n, exit n..1, is all of it when the run
\* has resolved, and the run never fails.
C7_OnionOrdering ==
    \A d \in DOMAIN runs :
        (Started(d) /\ AllContinue(runs[d].update)) =>
            /\ IsPrefix(runs[d].run.trace, OnionTrace)
            /\ runs[d].run.status # "rejected"
            /\ (runs[d].run.status = "resolved" => runs[d].run.trace = OnionTrace)

\* Three handlers a, b, c have run to the end in one dispatch while the
\* other dispatch is suspended inside the chain.
C7_Witness ==
    /\ N = 3
    /\ Len(runs) = 2
    /\ AllContinue(runs[1].update)
    /\ runs[1].run.status = "resolved"
    /\ runs[1].run.trace =
         <<Enter(1), Enter(2), Enter(3), Exit(3), Exit(2), Exit(1)>>
    /\ runs[2].run.status = "running"
    /\ runs[2].run.trace = <<Enter(1), Enter(2)>>

\* Handler k returns without invoking its continuation, the handlers before
\* it invoke theirs and return.
StopsAt(k, u) == /\ k \in 1..N
                 /\ B(k, u) = "stop"
                 /\ \A i \in 1..(k - 1) : B(i, u) = "next"
StopTrace(k) == Enters(k) \o ExitsDown(k, 1)

\* C8: short-circuit. When handler k does not invoke its continuation, no
\* handler after k is entered, handlers k..1 are left in reverse order, and
\* the run completes without error: the promise of the dispatch resolves.
C8_ShortCircuit ==
    \A d \in DOMAIN runs : \A k \in 1..N :
        (Started(d) /\ StopsAt(k, runs[d].update)) =>
            /\ IsPrefix(runs[d].run.trace, StopTrace(k))
            /\ runs[d].run.status # "rejected"
            /\ (runs[d].run.status = "resolved" => runs[d].run.trace = StopTrace(k))
            /\ (runs[d].phase = "settled" => runs[d].out.status = "resolved")

\* [a, b, c] with b not continuing: a-enter, b-enter, b-exit, a-exit, and
\* the dispatch has settled as a success.
C8_Witness ==
    \E d \in DOMAIN runs :
        /\ N = 3
        /\ StopsAt(2, runs[d].update)
        /\ runs[d].phase = "settled"
        /\ runs[d].out.status = "resolved"
        /\ runs[d].run.trace = <<Enter(1), Enter(2), Exit(2), Exit(1)>>

\* The handler that turns the chain around: the first one that does not
\* invoke its continuation, or the last one.
Turn(u) ==
    IF \E k \in 1..N : B(k, u) \in {"stop", "throw"}
    THEN CHOOSE k \in 1..N :
             /\ B(k, u) \in {"stop", "throw"}
             /\ \A i \in 1..(k - 1) : B(i, u) \notin {"stop", "throw"}
    ELSE N

\* The handlers that throw when their continuation returns to them.
ThrowsOnExit(u) == {j \in 1..N : j <= Turn(u) /\ B(j, u) = "nextThrow"}

\* The handler whose throw ends the run of the chain on u, 0 when none throws.
ThrowPoint(u) ==
    IF N = 0 THEN 0
    ELSE IF B(Turn(u), u) = "throw" THEN Turn(u)
    ELSE IF ThrowsOnExit(u) = {} THEN 0
    ELSE CHOOSE j \in ThrowsOnExit(u) : \A i \in ThrowsOnExit(u) : i <= j

\* What has run when the throw happens.
ThrowTrace(u) ==
    IF B(Turn(u), u) = "throw" THEN Enters(Turn(u))
    ELSE Enters(Turn(u)) \o ExitsDown(Turn(u), ThrowPoint(u) + 1)

\* C9: error propagation. When a handler of the chain throws, the run fails
\* with the error of that handler, and so does the promise of the dispatch;
\* nothing runs after the throw: no later handler is entered and no
\* enclosing handler is left.
C9_ErrorPropagation ==
    \A d \in DOMAIN runs :
        (Started(d) /\ ThrowPoint(runs[d].update) # 0) =>
            LET u == runs[d].update IN
            /\ IsPrefix(runs[d].run.trace, ThrowTrace(u))
            /\ runs[d].run.status # "resolved"
            /\ (runs[d].run.status = "rejected" =>
                    /\ runs[d].run.trace = ThrowTrace(u)
                    /\ runs[d].run.err = HandlerErr(ThrowPoint(u)))
            /\ (runs[d].phase = "settled" =>
                    runs[d].out = [status |-> "rejected", err |-> HandlerErr(ThrowPoint(u))])

\* b of [a, b, c] throws while a is suspended in its continuation: the
\* dispatch has been rejected with the error of b, c was never entered and a
\* was never left.
C9_Witness ==
    \E d \in DOMAIN runs :
        /\ N = 3
        /\ B(1, runs[d].update) = "next"
        /\ B(2, runs[d].update) = "throw"
        /\ runs[d].phase = "settled"
        /\ runs[d].out = [status |-> "rejected", err |-> HandlerErr(2)]
        /\ runs[d].run.trace = <<Enter(1), Enter(2)>>

\* The run of a chain carried to its end in one go is the run the single
\* steps arrive at.
FinishAgrees ==
    \A d \in DOMAIN runs :
        (Started(d) /\ runs[d].run.status # "running") =>
            runs[d].run = Finish(NewRun(compose(middleware)), runs[d].update)

\* No run resolves on an update that has a throw point, and none is
\* rejected on one that has none.
ThrowPointDecides ==
    \A d \in DOMAIN runs :
        Started(d) =>
            /\ (runs[d].run.status = "rejected" => ThrowPoint(runs[d].update) # 0)
            /\ (runs[d].run.status = "resolved" => ThrowPoint(runs[d].update) = 0)

\* ------------------------------------------------------ Spec: polling loop

\* Every batch getUpdates may answer with: updates ordered by update_id
\* ascending.
SortedSeq(S) ==
    CHOOSE s \in [1..Cardinality(S) -> S] :
        \A i, j \in 1..Cardinality(S) : i < j => s[i] < s[j]

AllBatches ==
    UNION { { [i \in 1..Cardinality(S) |-> RawUpdate(SortedSeq(S)[i], sh[i])] :
                sh \in [1..Cardinality(S) -> UpdateShapes] } :
            S \in SUBSET (1..MaxUpdateId) }

\* The answers to a request with offset off: only updates with
\* update_id >= off.
Batches(off) == { b \in AllBatches : \A i \in DOMAIN b : b[i].update_id >= off }

\* A loop that does not look at started.
pollingLoopAlways(p) ==
    [pc |-> "fetching", reqOffset |-> p.offset, batch |-> <<>>, st |-> <<>>]

\* pollingLoop(): nothing when polling is stopped, else the next getUpdates
\* request, with the cursor as it is now.
pollingLoop(p) ==
    IF ~p.started THEN Ended
    ELSE [pc |-> "fetching", reqOffset |-> p.offset, batch |-> <<>>, st |-> <<>>]

\* startPolling(): the new promise chain takes a record no live chain and no
\* dispatch in flight uses (at most MaxLoops chains are followed at a time).
startPolling ==
    /\ \E l \in DOMAIN loops : Free(loops[l])
    /\ polling' = [polling EXCEPT !.started = TRUE]
    /\ LET l == CHOOSE k \in DOMAIN loops :
                   Free(loops[k]) /\ \A j \in DOMAIN loops : Free(loops[j]) => k <= j
       IN loops' = [loops EXCEPT ![l] = pollingLoop(polling')]
    /\ UNCHANGED <<middleware, runs, hooks, options, errorHandler, thisContext>>

stop ==
    /\ polling' = [polling EXCEPT !.started = FALSE]
    /\ UNCHANGED <<middleware, runs, loops, hooks, options, errorHandler, thisContext>>

\* A first catch that gives up as the last one does.
FetchRejectedFatal(l) ==
    /\ loops[l].pc = "fetching"
    /\ polling' = [polling EXCEPT !.started = FALSE]
    /\ loops' = [loops EXCEPT ![l] = Ended]
    /\ UNCHANGED <<middleware, runs, hooks, options, errorHandler, thisContext>>

\* getUpdates rejects: the first catch starts the one-second timer.
FetchRejected(l) ==
    /\ loops[l].pc = "fetching"
    /\ loops' = [loops EXCEPT ![l].pc = "backoff"]
    /\ UNCHANGED <<middleware, polling, runs, hooks, options, errorHandler, thisContext>>

\* The timer resolves the chain with [], Promise.all([]) resolves, and the
\* loop is entered again.
BackoffElapsed(l) ==
    /\ loops[l].pc = "backoff"
    /\ loops' = [loops EXCEPT ![l] = pollingLoop(polling)]
    /\ UNCHANGED <<middleware, polling, runs, hooks, options, errorHandler, thisContext>>

\* updates.map(handleUpdate): the dispatches start in batch order; the call
\* for an update of no recognized kind throws, and the map ends there.
RECURSIVE MapHandleUpdate(_, _)
MapHandleUpdate(batch, i) ==
    IF i > Len(batch) THEN <<>>
    ELSE IF extractUpdate(batch[i]).type = NoType
         THEN <<"threw">> \o [j \in 1..(Len(batch) - i) |-> "unstarted"]
         ELSE <<"running">> \o MapHandleUpdate(batch, i + 1)

\* getUpdates resolves with a batch.
FetchResolved(l, batch) ==
    /\ loops[l].pc = "fetching"
    /\ loops' = [loops EXCEPT ![l] = [pc |-> "dispatching", reqOffset |-> 0,
                                       batch |-> batch,
                                       st |-> MapHandleUpdate(batch, 1)]]
    /\ UNCHANGED <<middleware, polling, runs, hooks, options, errorHandler, thisContext>>

\* Nothing refers any more to the batch of a chain that is over once its
\* last dispatch has settled.
Forget(lp) == IF Free(lp) THEN Ended ELSE lp

\* A registered handler awaits its own I/O (an outbound call) when it runs,
\* so the dispatches of a batch settle in any order; with no handler every
\* dispatch settles as soon as it is started, in the order of the batch.
Suspends == Len(middleware) > 0

\* The promise of the i-th dispatch of loop l settles.
DispatchOutcome(u) == Outcome(Finish(NewRun(compose(middleware)), u))

DispatchSettled(l, i) ==
    /\ loops[l].st[i] = "running"
    /\ Suspends \/ \A j \in 1..(i - 1) : loops[l].st[j] # "running"
    /\ LET u == loops[l].batch[i]
           o == DispatchOutcome(u)
       IN /\ loops' = [loops EXCEPT ![l] = Forget([@ EXCEPT !.st[i] = o.status])]
          /\ polling' = Settled(polling, u, o)
    /\ UNCHANGED <<middleware, runs, hooks, options, errorHandler, thisContext>>

Failed(lp) == \E i \in DOMAIN lp.st : lp.st[i] \in {"rejected", "threw"}
AllResolved(lp) == \A i \in DOMAIN lp.st : lp.st[i] = "resolved"

\* A last catch that enters the loop again.
BatchRejectedRetry(l) ==
    /\ loops[l].pc = "dispatching"
    /\ Failed(loops[l])
    /\ loops' = [loops EXCEPT ![l] = pollingLoop(polling)]
    /\ UNCHANGED <<middleware, polling, runs, hooks, options, errorHandler, thisContext>>

\* Promise.all rejects with the first failure: the last catch stops polling.
BatchRejected(l) ==
    /\ loops[l].pc = "dispatching"
    /\ Failed(loops[l])
    /\ polling' = [polling EXCEPT !.started = FALSE]
    /\ loops' = [loops EXCEPT ![l] = Forget([@ EXCEPT !.pc = "ended"])]
    /\ UNCHANGED <<middleware, runs, hooks, options, errorHandler, thisContext>>

\* Promise.all resolves: the loop is entered again.
BatchResolved(l) ==
    /\ loops[l].pc = "dispatching"
    /\ AllResolved(loops[l])
    /\ loops' = [loops EXCEPT ![l] = pollingLoop(polling)]
    /\ UNCHANGED <<middleware, polling, runs, hooks, options, errorHandler, thisContext>>

Next ==
    \/ \E k \in {"stop", "throw"} : use(k, MaxMiddleware)
    \/ startPolling
    \/ stop
    \/ \E l \in DOMAIN loops : FetchRejected(l)
    \/ \E l \in DOMAIN loops : BackoffElapsed(l)
    \/ \E l \in DOMAIN loops : \E b \in Batches(loops[l].reqOffset) : FetchResolved(l, b)
    \/ \E l \in DOMAIN loops : \E i \in DOMAIN loops[l].st : DispatchSettled(l, i)
    \/ \E l \in DOMAIN loops : BatchRejected(l)
    \/ \E l \in DOMAIN loops : BatchResolved(l)

Spec == Init /\ [][Next]_vars

\* SpecLoops: the polling loop again, with room to follow MaxChains promise
\* chains at a time: startPolling() begins a chain whether or not one is live.
InitLoops ==
    /\ middleware = <<>>
    /\ polling = [offset |-> 0, started |-> FALSE]
    /\ runs = <<>>
    /\ loops = [l \in 1..MaxChains |-> Ended]
    /\ hooks = <<>>
    /\ options = [webHookAnswer |-> TRUE]
    /\ errorHandler = "default"
    /\ thisContext = EmptyContext

SpecLoops == InitLoops /\ [][Next]_vars

\* The chains with a getUpdates request outstanding or a loop iteration
\* pending (the backoff timer, or the continuation of Promise.all).
Outstanding == { l \in DOMAIN loops : loops[l].pc # "ended" }

\* C21: at most one polling loop is active: over every sequence of
\* startPolling() and stop() calls there is never more than one outstanding
\* fetch request or pending loop iteration.
C21_SingleLoop == Cardinality(Outstanding) <= 1

\* --------------------------------------------------- SpecWebhook: webhook

\* new Telegraf(token, options): webHookAnswer is true unless given.
InitWebhook ==
    /\ middleware = <<>>
    /\ polling = [offset |-> 0, started |-> FALSE]
    /\ runs = <<>>
    /\ loops = [l \in 1..MaxLoops |-> Ended]
    /\ hooks = <<>>
    /\ options \in {[webHookAnswer |-> b] : b \in BOOLEAN}
    /\ errorHandler \in {"default", "custom"}
    /\ thisContext = EmptyContext

\* An http.ServerResponse nothing has been written to. (late: a status line
\* was written after the response had been finished; it never reaches the
\* client, who has the response as it was when it was finished.)
OpenResponse == [finished |-> FALSE, statusCode |-> 200, body |-> "none", late |-> FALSE]

\* res.writeHead(code); res.end()
Answered(res, code) ==
    IF res.finished THEN [res EXCEPT !.late = TRUE]
    ELSE [res EXCEPT !.finished = TRUE, !.statusCode = code, !.body = "empty"]

\* The requests a server hands to the callback: the method and the url match
\* or not, a fallback is given or not, the body is an update or no JSON.
\* (json says whether JSON.parse accepts the body, update is what it returns;
\* the n-th delivery carries update_id n.)
NoUpdate == [update_id |-> 0, keys |-> {}, subs |-> {}, poison |-> FALSE]
ParseErr == [kind |-> "SyntaxError", by |-> 0]

Requests(n) ==
    { [post |-> m, path |-> p, fallback |-> f, json |-> TRUE, update |-> RawUpdate(n, sh)] :
        m \in BOOLEAN, p \in BOOLEAN, f \in BOOLEAN, sh \in UpdateShapes }
    \cup
    { [post |-> m, path |-> p, fallback |-> f, json |-> FALSE, update |-> NoUpdate] :
        m \in BOOLEAN, p \in BOOLEAN, f \in BOOLEAN }

\* A sendRequest that does not look at response.finished.
sendRequestAnyTime(res, response, isFileRequest) ==
    IF response /\ ~isFileRequest
    THEN [res |-> [res EXCEPT !.finished = TRUE, !.body = "call"], via |-> "response"]
    ELSE [res |-> res, via |-> "network"]

\* sendRequest(method, options, response): the call is written to the
\* response when there is one, it is not finished and the call uploads no
\* file; else it goes to the Telegram server.
sendRequest(res, response, isFileRequest) ==
    IF response /\ ~res.finished /\ ~isFileRequest
    THEN [res |-> [res EXCEPT !.finished = TRUE, !.body = "call"], via |-> "response"]
    ELSE [res |-> res, via |-> "network"]

\* The proxy of handleUpdate hands the response to sendRequest only when
\* webHookAnswer is set (and a response was given).
ProxyHasResponse == options.webHookAnswer

\* A request the callback takes only the method into account for.
MatchesMethodOnly(req) == req.post

\* req.method is POST and req.url is the configured path.
Matches(req) == req.post /\ req.path

\* The callback of webHookCallback, to the point where it returns (nexts and
\* errors count the calls of the fallback and of the error handler).
webHookCallback(req) ==
    /\ Len(hooks) < MaxDeliveries
    /\ LET new(phase, res, nexts, errors) ==
               [req |-> req, phase |-> phase, res |-> res, calls |-> <<>>,
                nexts |-> nexts, errors |-> errors]
       IN hooks' = Append(hooks,
            IF ~Matches(req)
            THEN IF req.fallback THEN new("passed", OpenResponse, 1, 0)
                 ELSE new("refused", Answered(OpenResponse, 403), 0, 0)
            ELSE IF ~req.json \/ extractUpdate(req.update).type = NoType
                 THEN \* JSON.parse or handleUpdate throws into the catch block;
                      \* an error the handler throws again leaves the callback
                      IF thisOnError(IF req.json THEN UndefinedTypeErr ELSE ParseErr).thrown
                      THEN new("crashed", OpenResponse, 0, 1)
                      ELSE new("unsupported", Answered(OpenResponse, 415), 0, 1)
                 ELSE new("dispatching", OpenResponse, 0, 0))
    /\ UNCHANGED <<middleware, polling, runs, loops, options, errorHandler, thisContext>>

\* The calls made so far through the contexts of the first k deliveries.
RECURSIVE CallsMade(_)
CallsMade(k) == IF k = 0 THEN 0 ELSE Len(hooks[k].calls) + CallsMade(k - 1)

\* A handler of the dispatch of delivery h, or something it left running,
\* calls a sender of the context.
ContextSend(h, isFileRequest) ==
    /\ hooks[h].phase \in {"dispatching", "answered"}
    /\ Len(middleware) > 0
    /\ CallsMade(Len(hooks)) < MaxCalls
    /\ LET sent == sendRequest(hooks[h].res, ProxyHasResponse, isFileRequest) IN
       hooks' = [hooks EXCEPT
                   ![h].res = sent.res,
                   ![h].calls = Append(@, [file |-> isFileRequest,
                                           open |-> ~hooks[h].res.finished,
                                           via |-> sent.via])]
    /\ UNCHANGED <<middleware, polling, runs, loops, options, errorHandler, thisContext>>

\* The promise of the dispatch of delivery h settles: 200 unless a call has
\* finished the response, 500 when the dispatch failed.
HookSettled(h) ==
    /\ hooks[h].phase = "dispatching"
    /\ LET u == hooks[h].req.update
           o == DispatchOutcome(u)
       IN /\ polling' = Settled(polling, u, o)
          /\ hooks' = [hooks EXCEPT
                ![h].phase = "answered",
                ![h].res = IF o.status = "resolved"
                           THEN IF hooks[h].res.finished THEN hooks[h].res
                                ELSE Answered(hooks[h].res, 200)
                           ELSE Answered(hooks[h].res, 500)]
    /\ UNCHANGED <<middleware, runs, loops, options, errorHandler, thisContext>>

NextWebhook ==
    \/ \E k \in {"next", "throw"} : hooks = <<>> /\ use(k, MaxMiddleware)
    \/ \E req \in Requests(Len(hooks) + 1) : webHookCallback(req)
    \/ \E h \in DOMAIN hooks : \E f \in BOOLEAN : ContextSend(h, f)
    \/ \E h \in DOMAIN hooks : HookSettled(h)

SpecWebhook == InitWebhook /\ [][NextWebhook]_vars

\* ------------------------------------------- properties of the response sink

ViaResponse(h) == {i \in DOMAIN hooks[h].calls : hooks[h].calls[i].via = "response"}

\* C10: the response of a webhook delivery answers at most one call. With
\* webHookAnswer set, a call is written to the response exactly when it
\* uploads no file and the response is not finished when it is made, which
\* makes it the first such call; every other call goes over the network.
\* With webHookAnswer not set no call is written to the response.
C10_SinkSingleUse ==
    \A h \in DOMAIN hooks :
        /\ Cardinality(ViaResponse(h)) <= 1
        /\ \A i \in DOMAIN hooks[h].calls :
              LET c == hooks[h].calls[i] IN
              /\ c.via \in {"response", "network"}
              /\ c.via = "response" <=>
                    (options.webHookAnswer /\ ~c.file /\ c.open)
              /\ c.via = "response" =>
                    \A j \in 1..(i - 1) :
                        hooks[h].calls[j].file /\ hooks[h].calls[j].via = "network"
        /\ (~options.webHookAnswer => ViaResponse(h) = {})

\* A file upload went over the network, the next call was written to the
\* response, and the call after that went over the network.
C10_Witness ==
    \E h \in DOMAIN hooks :
        /\ options.webHookAnswer
        /\ hooks[h].phase = "dispatching"
        /\ hooks[h].calls =
             << [file |-> TRUE, open |-> TRUE, via |-> "network"],
                [file |-> FALSE, open |-> TRUE, via |-> "response"],
                [file |-> FALSE, open |-> FALSE, via |-> "network"] >>

\* ------------------------------------- properties of the webhook endpoint

\* The request of delivery h has the configured method and path.
OnPath(h) == hooks[h].req.post /\ hooks[h].req.path

\* The body of delivery h is a JSON document of a recognized event kind, so
\* that handleUpdate returns a promise.
Dispatched(h) ==
    /\ OnPath(h)
    /\ hooks[h].req.json
    /\ extractUpdate(hooks[h].req.update).type # NoType

\* C11: a matching request with a parseable body is answered with 200 when
\* the dispatch completes and no call was answered through the response,
\* and with 500 when the dispatch rejects.
C11_DispatchStatus ==
    \A h \in DOMAIN hooks :
        (Dispatched(h) /\ hooks[h].phase = "answered") =>
            LET o == DispatchOutcome(hooks[h].req.update) IN
            /\ (o.status = "resolved" /\ ViaResponse(h) = {}) =>
                  (hooks[h].res.finished /\ hooks[h].res.statusCode = 200)
            /\ o.status = "rejected" =>
                  (hooks[h].res.finished /\ hooks[h].res.statusCode = 500)

\* C12: a POST on the configured path whose body is no JSON is answered
\* with 415, the error handler is called exactly once, nothing is
\* dispatched and no exception leaves the callback, whichever error handler
\* is installed.
C12_UnparsableBody ==
    \A h \in DOMAIN hooks :
        (OnPath(h) /\ ~hooks[h].req.json) =>
            /\ hooks[h].phase = "unsupported"
            /\ hooks[h].res.finished
            /\ hooks[h].res.statusCode = 415
            /\ hooks[h].errors = 1
            /\ hooks[h].calls = <<>>

\* C13: a POST on the configured path whose body is JSON of no recognized
\* event kind is answered with 500, not with 415.
C13_UndefinedTypeStatus ==
    \A h \in DOMAIN hooks :
        (OnPath(h) /\ hooks[h].req.json
            /\ extractUpdate(hooks[h].req.update).type = NoType) =>
            /\ hooks[h].res.finished
            /\ hooks[h].res.statusCode = 500

\* C14: a request with another method or another url is never dispatched
\* and leaves the cursor alone; with a fallback, the fallback is called
\* once and nothing is written to the response; without, the answer is 403.
C14_OffPath ==
    /\ [](\A h \in DOMAIN hooks :
            (~hooks[h].req.post \/ ~hooks[h].req.path) =>
                /\ hooks[h].calls = <<>>
                /\ IF hooks[h].req.fallback
                   THEN /\ hooks[h].phase = "passed"
                        /\ hooks[h].nexts = 1
                        /\ hooks[h].res = OpenResponse
                   ELSE /\ hooks[h].phase = "refused"
                        /\ hooks[h].nexts = 0
                        /\ hooks[h].res = [OpenResponse EXCEPT !.finished = TRUE,
                                                               !.statusCode = 403,
                                                               !.body = "empty"])
    /\ [][ \A h \in DOMAIN hooks' :
             ((h \notin DOMAIN hooks \/ hooks'[h] # hooks[h])
                 /\ (~hooks'[h].req.post \/ ~hooks'[h].req.path)) =>
                    polling' = polling ]_vars

\* A POST to another path with no fallback has been answered with 403, and
\* the cursor is where it was.
C14_Witness ==
    \E h \in DOMAIN hooks :
        /\ hooks[h].req.post /\ ~hooks[h].req.path /\ ~hooks[h].req.fallback
        /\ hooks[h].req.json
        /\ extractUpdate(hooks[h].req.update).type # NoType
        /\ hooks[h].res.statusCode = 403
        /\ polling.offset = 0

\* C19: the response of a matching request is finished exactly once: it is
\* not left open once the delivery has been processed, and nothing is
\* written to it after it has been finished.
C19_FinishedOnce ==
    \A h \in DOMAIN hooks :
        OnPath(h) =>
            /\ hooks[h].phase # "dispatching" => hooks[h].res.finished
            /\ ~hooks[h].res.late

\* What the network and the scheduler guarantee: a request is answered or
\* fails, a timer fires, a settled promise runs its callbacks.
\* (A request in flight enables FetchRejected, and every answer disables it:
\* weak fairness of FetchRejected says that no request stays unanswered.)
Fairness ==
    \A l \in 1..MaxLoops :
        /\ WF_vars(FetchRejected(l))
        /\ WF_vars(BackoffElapsed(l))
        /\ WF_vars(BatchRejected(l))
        /\ WF_vars(BatchResolved(l))
        /\ \A i \in 1..MaxUpdateId : WF_vars(i \in DOMAIN loops[l].st /\ DispatchSettled(l, i))

FairSpec == Spec /\ Fairness

\* ---------------------------------------------- properties of the polling loop

LoopIds == DOMAIN loops
Update(l, i) == loops[l].batch[i]

\* The i-th dispatch of loop l settles in this step.
Settles(l, i) ==
    /\ loops[l].st[i] = "running"
    /\ i \notin DOMAIN loops'[l].st \/ loops'[l].st[i] # "running"

\* C1: the cursor changes exactly when a dispatch completes successfully. A
\* step in which the dispatch of update n completes without error leaves
\* the offset at n + 1, a step in which a dispatch fails leaves the offset
\* as it was, and no other step changes the offset.
C1_CursorFollowsSuccess ==
    [][ /\ \A l \in LoopIds : \A i \in DOMAIN loops[l].st :
              Settles(l, i) =>
                  IF DispatchOutcome(Update(l, i)).status = "resolved"
                  THEN polling'.offset = Update(l, i).update_id + 1
                  ELSE polling'.offset = polling.offset
        /\ polling'.offset # polling.offset =>
              \E l \in LoopIds : \E i \in DOMAIN loops[l].st :
                  Settles(l, i) /\ DispatchOutcome(Update(l, i)).status = "resolved"
      ]_vars

\* A batch of which one dispatch has failed and left the cursor alone, and
\* another has then succeeded and moved it.
C1_Witness ==
    \E l \in LoopIds : \E i, j \in DOMAIN loops[l].st :
        /\ loops[l].st[i] = "rejected"
        /\ loops[l].st[j] = "resolved"
        /\ polling.offset = Update(l, j).update_id + 1

\* C2: the offset never decreases.
C2_OffsetNeverDecreases == [][polling'.offset >= polling.offset]_vars

\* C3: the cursor never passes an update whose dispatch failed.
C3_NoSkipPastFailure ==
    \A l \in LoopIds : \A i \in DOMAIN loops[l].st :
        loops[l].st[i] \in {"rejected", "threw"} => polling.offset <= Update(l, i).update_id

\* C4: a fetch failure is recoverable. The step in which getUpdates fails
\* and the step in which the backoff ends leave polling (started and
\* offset) as it is and start no dispatch; when the backoff ends with
\* polling started, the next request goes out with the cursor as the
\* failure left it; a batch that arrives is dispatched from its first
\* update on; and a loop in backoff always gets out of it.
C4_FetchFailureRecoverable ==
    /\ [][ \A l \in LoopIds :
             /\ (loops[l].pc = "fetching" /\ loops'[l].pc \notin {"fetching", "dispatching"}) =>
                   /\ polling' = polling
                   /\ loops'[l] = [loops[l] EXCEPT !.pc = "backoff"]
             /\ (loops[l].pc = "backoff" /\ loops'[l].pc # "backoff") =>
                   /\ polling' = polling
                   /\ loops'[l].st = <<>>
                   /\ polling.started =>
                        /\ loops'[l].pc = "fetching"
                        /\ loops'[l].reqOffset = polling.offset
             /\ (loops[l].pc = "fetching" /\ loops'[l].pc = "dispatching"
                   /\ loops'[l].batch # <<>>) =>
                   loops'[l].st[1] \in {"running", "threw"}
         ]_vars
    /\ \A l \in 1..MaxLoops :
          (loops[l].pc = "backoff") ~> (loops[l].pc \in {"fetching", "ended"})

\* A request made with offset 2 has failed: the loop waits for the timer,
\* polling is still started and the cursor is still 2.
C4_Witness ==
    \E l \in LoopIds :
        /\ loops[l].pc = "backoff"
        /\ loops[l].reqOffset = 2
        /\ polling = [offset |-> 2, started |-> TRUE]

\* C5: a failure while dispatching is fatal to the loop. A loop with a
\* failed dispatch in its batch leaves the dispatching state only by
\* setting started to false and ending, and it does end; a loop that has
\* ended sends a request again only in a call of startPolling.
C5_DispatchFailureFatal ==
    /\ [][ \A l \in LoopIds :
             /\ (loops[l].pc = "dispatching" /\ Failed(loops[l])
                   /\ loops'[l].pc # "dispatching") =>
                   /\ loops'[l].pc = "ended"
                   /\ ~polling'.started
             /\ (loops[l].pc = "ended" /\ loops'[l].pc # "ended") => startPolling
         ]_vars
    /\ \A l \in 1..MaxLoops :
          (loops[l].pc = "dispatching" /\ Failed(loops[l])) ~> (loops[l].pc = "ended")

\* A loop has ended on a rejected dispatch, polling is stopped, and another
\* dispatch of its batch is still in flight.
C5_Witness ==
    \E l \in LoopIds : \E i, j \in DOMAIN loops[l].st :
        /\ loops[l].pc = "ended"
        /\ loops[l].st[i] = "rejected"
        /\ loops[l].st[j] = "running"
        /\ ~polling.started

\* Loop l sends a getUpdates request in this step.
BeginsFetch(l) == loops'[l].pc = "fetching" /\ loops[l].pc # "fetching"

\* C6: stopping is cooperative. While started is false no request is sent
\* but by a call of startPolling; stop() touches neither a request nor a
\* dispatch in flight; and a request in flight is answered and a dispatch in
\* flight settles, whether polling is stopped or not.
C6_StopCooperative ==
    /\ [][ /\ \A l \in LoopIds :
                BeginsFetch(l) => (polling.started \/ startPolling)
           /\ stop => (loops' = loops /\ polling'.offset = polling.offset)
         ]_vars
    /\ \A l \in 1..MaxLoops :
          /\ (loops[l].pc = "fetching") ~> (loops[l].pc # "fetching")
          /\ InFlight(loops[l]) ~> ~InFlight(loops[l])

\* Polling was stopped while a batch was being dispatched: the dispatch of
\* update 2 has completed and has moved the cursor to 3.
C6_Witness ==
    \E l \in LoopIds : \E i \in DOMAIN loops[l].st :
        /\ ~polling.started
        /\ loops[l].pc = "dispatching"
        /\ ~Failed(loops[l])
        /\ loops[l].st[i] = "resolved"
        /\ Update(l, i).update_id = 2
        /\ polling.offset = 3

\* C20: when every dispatch of a batch has succeeded, the next request is
\* sent with the largest update_id of the batch plus one, in whatever order
\* the dispatches have completed.
C20_NextOffsetPastBatch ==
    [][ \A l \in LoopIds :
          (/\ loops[l].pc = "dispatching"
           /\ loops[l].batch # <<>>
           /\ AllResolved(loops[l])
           /\ loops'[l].pc = "fetching") =>
              loops'[l].reqOffset = loops[l].batch[Len(loops[l].batch)].update_id + 1
      ]_vars

====
